---- MODULE Spec2Model ----
(***************************************************************************)
(* A model of AbstractSynchroniser (abstractSynchronizer.ts): the status   *)
(* machine, the single cancellable preview future, and the asynchronous    *)
(* operations sync, pull, push, replace, acceptConflict, stop,             *)
(* generateSyncPreview and the local-change task.  Every await of the      *)
(* source is a suspension point: the code between two awaits is one        *)
(* atomic step of the invocation, and steps of different invocations       *)
(* interleave freely.                                                      *)
(***************************************************************************)
EXTENDS Integers, Sequences, FiniteSets, TLC

(* ------------------------------ bounds --------------------------------- *)
\* number of invocation slots (asynchronous calls that can be in flight)
NumProcs == 2
\* total number of operations started in one behaviour
MaxCalls == 3
\* number of writes made to the remote store by other machines
MaxExtWrites == 1
\* number of changes made to the resource file by the user
MaxLocalEdits == 1

Procs == 1..NumProcs

(* ------------------------------ values --------------------------------- *)
Idle == "Idle"
Syncing == "Syncing"
HasConflicts == "HasConflicts"
SyncStatus == {Idle, Syncing, HasConflicts}

\* TestSynchroniser.version; envelopes written by this machine carry it
version == 1
\* the envelope versions another machine may write (2 is newer than ours)
Versions == {1, 2}

NoRef == 0 - 1
\* "no record": getLastSyncUserData() === null
NullData == [ref |-> NoRef, ver |-> 0]
\* IRemoteUserData: ref and syncData (ver = 0 stands for syncData === null)
RemoteUserData(ref, ver) == [ref |-> ref, ver |-> ver]

\* the resource file of a file-backed synchroniser: rev counts its changes,
\* state tells whether it is there and whether it can be read
FileStates == {"absent", "file", "unreadable"}
NoFile == [rev |-> 0, state |-> "absent"]

\* no helper is being run on its own
NoHelper == [call |-> "none"]

\* fileContent: the revision of the resource file a file-backed strategy
\* loaded when it generated the preview (0: null, nothing was read)
NoPreview ==
  [ref |-> NoRef, hasConflicts |-> FALSE,
   remoteUserData |-> NullData, lastSyncUserData |-> NullData,
   fileContent |-> 0]

\* the headers a caller may pass to sync; NoHeaders is {}
NoHeaders == "none"
Headers == {NoHeaders, "h1"}

\* the handles replace may be given, by the authority of the URI
Uris == {"remote-backup", "local-backup", "other"}
\* what resolveContent may deliver
Contents == {"null", "bad", "envelope"}

\* the one conflict a strategy reports
TheConflicts == <<"c1">>

VARIABLES
  status,             \* _status
  conflicts,          \* _conflicts
  events,             \* the values fired by onDidChangeStatus, in order
  syncPreviewPromise, \* 0 (null) or the index in promises of the future held
  promises,           \* every cancellable preview future created so far
  syncHeaders,        \* syncHeaders
  enabled,            \* isResourceEnabled(resource)
  scheduled,          \* localChangeTriggerScheduler has a pending timeout
  lastSyncFile,       \* the content of lastSyncResource (NullData: no file)
  server,             \* the remote store's current ref and envelope version
  procs,              \* the invocations: position and locals of each
  calls,              \* operations started so far
  extWrites,          \* writes by other machines so far
  localFile,          \* the resource file: its revision and what it is
  localEdits,         \* changes of the resource file by the user so far
  stopped,            \* stop() was the last call made
  helper              \* a helper of the engine run on its own: its arguments,
                      \* the file it works on and what it returned

vars == <<status, conflicts, events, syncPreviewPromise, promises, syncHeaders,
          enabled, scheduled, lastSyncFile, server, procs, calls, extWrites,
          localFile, localEdits, stopped, helper>>

(* --------------------------- engine state ------------------------------ *)
\* the fields of the instance, gathered so that the methods below are
\* functions from engine state to engine state
Eng ==
  [status |-> status, conflicts |-> conflicts, events |-> events,
   syncPreviewPromise |-> syncPreviewPromise, promises |-> promises,
   syncHeaders |-> syncHeaders]

\* a settled future that neither the field nor an invocation refers to can no
\* longer be observed: it is dropped (trailing ones are removed, so that the
\* indices of the others stay)
Dead ==
  [state |-> "dead", by |-> "none", base |-> NoPreview, value |-> NoPreview,
   cancellationRequested |-> FALSE, applied |-> 0]

RECURSIVE Trim(_)
Trim(pms) ==
  IF pms # <<>> /\ pms[Len(pms)] = Dead
    THEN Trim(SubSeq(pms, 1, Len(pms) - 1))
    ELSE pms

Collect(pms, held, ps) ==
  Trim([i \in 1..Len(pms) |->
          IF pms[i].state # "pending" /\ i # held /\ \A q \in Procs : ps[q].pr # i
            THEN Dead ELSE pms[i]])

\* the step's effect on the instance (g) and on the invocations (ps)
Commit(g, ps) ==
  /\ procs' = ps
  /\ status' = g.status
  /\ conflicts' = g.conflicts
  /\ events' = g.events
  /\ syncPreviewPromise' = g.syncPreviewPromise
  /\ promises' = Collect(g.promises, g.syncPreviewPromise, ps)
  /\ syncHeaders' = g.syncHeaders

\* setConflicts: replace the list (and fire) unless it is equal
setConflicts(g, cs) ==
  IF g.conflicts # cs THEN [g EXCEPT !.conflicts = cs] ELSE g

\* setStatus without the clearing of the conflict list
setStatusKeepsConflicts(g, s) ==
  IF g.status # s
    THEN [g EXCEPT !.status = s, !.events = Append(g.events, s)]
    ELSE g

\* setStatus without the comparison with the current status
setStatusAlwaysFires(g, s) ==
  LET g1 == [g EXCEPT !.status = s, !.events = Append(g.events, s)]
  IN  IF s # HasConflicts THEN setConflicts(g1, <<>>) ELSE g1

\* setStatus: a change fires the event once and, when the new status is not
\* HasConflicts, clears the conflict list; an equal status does nothing
setStatus(g, s) ==
  IF g.status # s
    THEN LET g1 == [g EXCEPT !.status = s, !.events = Append(g.events, s)]
         IN  IF s # HasConflicts THEN setConflicts(g1, <<>>) ELSE g1
    ELSE g

\* CancelablePromise.cancel: the token is cancelled; a pending future rejects
\* with Canceled, a settled one keeps its outcome
cancel(pm) ==
  [pm EXCEPT !.state = IF @ = "pending" THEN "cancelled" ELSE @,
             !.cancellationRequested = TRUE]

\* stop (the part that runs synchronously in the caller's step)
stop(g) ==
  LET g1 == IF g.syncPreviewPromise # 0
              THEN [g EXCEPT
                      !.promises[g.syncPreviewPromise] =
                          cancel(g.promises[g.syncPreviewPromise]),
                      !.syncPreviewPromise = 0]
              ELSE g
  IN  setStatus(g1, Idle)

\* applyPreview is called with the preview that future i delivered (what it
\* does then depends on the strategy); the future records the call
applyPreview(g, i) == [g EXCEPT !.promises[i].applied = @ + 1]

\* createCancelablePromise(token => generator): a new pending future
createCancelablePromise(g, by, base) ==
  [g EXCEPT
     !.promises = Append(g.promises,
                         [state |-> "pending", by |-> by, base |-> base,
                          value |-> NoPreview, cancellationRequested |-> FALSE,
                          applied |-> 0]),
     !.syncPreviewPromise = Len(g.promises) + 1]

(* ---------------------------- invocations ------------------------------ *)
Blank ==
  [op |-> "none", pc |-> "done", pr |-> 0, last |-> NullData,
   rem |-> NullData, wr |-> NullData, man |-> NoRef, hdr |-> NoHeaders,
   uri |-> "none", reqs |-> <<>>, lw |-> "none", res |-> "none", err |-> "none"]

\* the invocation returns r
Return(me, r) == [Blank EXCEPT !.op = me.op, !.res = r]

\* the invocation rejects with error e
Reject(me, e) == [Blank EXCEPT !.op = me.op, !.res = "rejected", !.err = e]

\* the error an awaited future that did not resolve throws
Thrown(pm) == IF pm.state = "cancelled" THEN "Canceled" ELSE "Error"

Free(p) == procs[p].pc = "done"
Quiescent == \A p \in Procs : Free(p)
\* a new invocation takes the lowest free slot
Slot(p) == Free(p) /\ \A q \in Procs : q < p => ~Free(q)

Begin(op) == [Blank EXCEPT !.op = op, !.pc = "run", !.res = "pending"]

Upd(p, me) == [procs EXCEPT ![p] = me]

\* one request to the remote store, as the store sees it: ref is the ref sent
\* (If-Match of a write, the cached ref of a read), got the ref answered,
\* srv the store's ref when the request arrived
Request(type, ref, ok, got, hdr) ==
  [type |-> type, ref |-> ref, ok |-> ok, got |-> got, srv |-> server.ref,
   hdr |-> hdr, en |-> enabled]

\* userDataSyncStoreService.read(resource, lastSyncUserData, syncHeaders),
\* issued by getUserData from getRemoteUserData(lastSyncData)
ReadRequest(g, me, lastSyncData) ==
  [me EXCEPT
     !.reqs = Append(me.reqs,
                Request("read", lastSyncData.ref, TRUE, server.ref, g.syncHeaders)),
     !.rem = server]

\* updateRemoteUserData(content, ref): write with If-Match ref; the store
\* accepts it only when ref is its current ref, and then advances the ref
WriteAccepted(ref) == ref = server.ref

WriteRequest(g, me, ref) ==
  [me EXCEPT
     !.reqs = Append(me.reqs,
                Request("write", ref, WriteAccepted(ref),
                        IF WriteAccepted(ref) THEN server.ref + 1 ELSE NoRef,
                        g.syncHeaders)),
     !.wr = IF WriteAccepted(ref)
              THEN RemoteUserData(server.ref + 1, version)
              ELSE NullData]

ServerAfterWrite(ref) ==
  IF WriteAccepted(ref) THEN RemoteUserData(server.ref + 1, version) ELSE server

(* --------------------------- performSync ------------------------------- *)
\* what the caller of performSync does when it returns s or throws e
afterPerformSync(g, me, threw, s, e) ==
  IF me.op = "sync"
    THEN \* sync: finally setStatus(status); finally syncHeaders = {}
         [g |-> [setStatus(g, IF threw THEN Idle ELSE s) EXCEPT
                   !.syncHeaders = NoHeaders],
          me |-> IF threw THEN Reject(me, e) ELSE Return(me, s)]
    ELSE \* doTriggerLocalChange: setStatus(status), only when it returned
         [g |-> IF threw THEN g ELSE setStatus(g, s),
          me |-> IF threw THEN Reject(me, e) ELSE Return(me, s)]

\* doSync without the test of the field
doSyncAlwaysCreates(g, me, remoteUserData, lastSyncUserData) ==
  LET g1 == createCancelablePromise(g, "doSync",
              [NoPreview EXCEPT !.remoteUserData = remoteUserData,
                                !.lastSyncUserData = lastSyncUserData])
  IN  [g |-> g1,
       me |-> [me EXCEPT !.pc = "ds_await", !.pr = g1.syncPreviewPromise,
                         !.rem = remoteUserData, !.last = lastSyncUserData]]

\* doSync up to its first await: generate a preview or use the existing one
doSync(g, me, remoteUserData, lastSyncUserData) ==
  LET g1 == IF g.syncPreviewPromise = 0
              THEN createCancelablePromise(g, "doSync",
                     [NoPreview EXCEPT !.remoteUserData = remoteUserData,
                                       !.lastSyncUserData = lastSyncUserData])
              ELSE g
  IN  [g |-> g1,
       me |-> [me EXCEPT !.pc = "ds_await", !.pr = g1.syncPreviewPromise,
                         !.rem = remoteUserData, !.last = lastSyncUserData]]

\* performSync without the comparison of the versions
performSyncAnyVersion(g, me, remoteUserData, lastSyncUserData) ==
  doSync(g, me, remoteUserData, lastSyncUserData)

\* performSync up to its first await
performSync(g, me, remoteUserData, lastSyncUserData) ==
  IF remoteUserData.ver > version
    THEN afterPerformSync(g, me, TRUE, Idle, "Incompatible")
    ELSE doSync(g, me, remoteUserData, lastSyncUserData)

\* getLatestRemoteUserData: TRUE when the last-sync record is used as the
\* remote view and no read is made
UseLastSync(latestRef, lastSyncUserData) ==
  /\ lastSyncUserData # NullData
  /\ \/ lastSyncUserData.ref = latestRef
     \/ latestRef = NoRef /\ lastSyncUserData.ver = 0

\* performSync's catch reading with the cached last-sync record
doSyncCatchCached(g, me, e) ==
  LET g1 == [g EXCEPT !.syncPreviewPromise = 0]
      m1 == [me EXCEPT !.pr = 0]
  IN  CASE e = "LocalPreconditionFailed" -> performSync(g1, m1, me.rem, me.last)
        [] e = "PreconditionFailed" ->
             [g |-> g1, me |-> [ReadRequest(g1, m1, me.last) EXCEPT !.pc = "ps_read"]]
        [] OTHER -> afterPerformSync(g1, m1, TRUE, Idle, e)

\* doSync's catch without the reset of the preview
doSyncCatchKeepsPreview(g, me, e) ==
  CASE e = "LocalPreconditionFailed" -> performSync(g, me, me.rem, me.last)
    [] e = "PreconditionFailed" ->
         [g |-> g, me |-> [ReadRequest(g, me, NullData) EXCEPT !.pc = "ps_read"]]
    [] OTHER -> afterPerformSync(g, me, TRUE, Idle, e)

\* an error thrown inside doSync's try, seen by doSync's catch and then by
\* performSync's catch
doSyncCatch(g, me, e) ==
  LET g1 == [g EXCEPT !.syncPreviewPromise = 0]
      m1 == [me EXCEPT !.pr = 0]
  IN  CASE e = "LocalPreconditionFailed" ->
             \* retry with the same remote data and last-sync data
             performSync(g1, m1, me.rem, me.last)
        [] e = "PreconditionFailed" ->
             \* getRemoteUserData(null): read the latest, no cached last-sync
             [g |-> g1, me |-> [ReadRequest(g1, m1, NullData) EXCEPT !.pc = "ps_read"]]
        [] OTHER -> afterPerformSync(g1, m1, TRUE, Idle, e)

\* what follows an error thrown by applyPreview
applyThrows(g, me, e) ==
  IF me.op = "acceptConflict"
    THEN [g |-> g, me |-> Reject(me, e)]
    ELSE doSyncCatch(g, me, e)

\* applyPreview returns and the preview is not reset
applyReturnsKeepsPreview(g, me) ==
  IF me.op = "acceptConflict"
    THEN [g |-> setStatus(g, Idle), me |-> Return(me, "applied")]
    ELSE afterPerformSync(g, me, FALSE, Idle, "none")

\* what follows the return of applyPreview: reset preview, then Idle
applyReturns(g, me) ==
  LET g1 == [g EXCEPT !.syncPreviewPromise = 0]
  IN  IF me.op = "acceptConflict"
        THEN [g |-> setStatus(g1, Idle), me |-> Return(me, "applied")]
        ELSE afterPerformSync(g1, me, FALSE, Idle, "none")

\* frames
EnvUnchanged ==
  UNCHANGED <<enabled, scheduled, lastSyncFile, server, extWrites, localFile,
              localEdits, helper>>
Called == calls' = calls + 1 /\ stopped' = FALSE
CanCall == calls < MaxCalls

\* sync refusing re-entry only in conflicts
syncWhileSyncing(p, latestRef, headers) ==
  /\ CanCall /\ Slot(p) /\ Called
  /\ LET g0 == [Eng EXCEPT !.syncHeaders = headers]
         g9 == [g0 EXCEPT !.syncHeaders = NoHeaders]
         me == [Begin("sync") EXCEPT !.man = latestRef, !.hdr = headers]
     IN  IF ~enabled
           THEN IF g0.status # Idle
                  THEN Commit(stop(g0), Upd(p, [me EXCEPT !.pc = "sync_stop"]))
                  ELSE Commit(g9, Upd(p, Return(me, "skipped")))
           ELSE IF g0.status = HasConflicts
                  THEN Commit(g9, Upd(p, Return(me, "skipped")))
                  ELSE Commit(setStatus(g0, Syncing),
                              Upd(p, [me EXCEPT !.pc = "sync_last"]))
  /\ EnvUnchanged

(* ------------------------------- sync ---------------------------------- *)
\* sync(manifest, headers) up to its first await (or its return); latestRef
\* is manifest.latest[resource], NoRef when the manifest gives none
sync(p, latestRef, headers) ==
  /\ CanCall /\ Slot(p) /\ Called
  /\ LET g0 == [Eng EXCEPT !.syncHeaders = headers]
         g9 == [g0 EXCEPT !.syncHeaders = NoHeaders]
         me == [Begin("sync") EXCEPT !.man = latestRef, !.hdr = headers]
     IN  IF ~enabled
           THEN IF g0.status # Idle
                  THEN Commit(stop(g0), Upd(p, [me EXCEPT !.pc = "sync_stop"]))
                  ELSE Commit(g9, Upd(p, Return(me, "skipped")))
           ELSE IF g0.status = HasConflicts \/ g0.status = Syncing
                  THEN Commit(g9, Upd(p, Return(me, "skipped")))
                  ELSE Commit(setStatus(g0, Syncing),
                              Upd(p, [me EXCEPT !.pc = "sync_last"]))
  /\ EnvUnchanged

\* the disabled sync resumes after await this.stop()
syncStopped(p) ==
  /\ procs[p].pc = "sync_stop"
  /\ Commit([Eng EXCEPT !.syncHeaders = NoHeaders], Upd(p, Return(procs[p], "skipped")))
  /\ EnvUnchanged /\ UNCHANGED <<calls, stopped>>

\* sync resumes with the last-sync record and asks for the latest remote data
syncLastSync(p) ==
  /\ procs[p].pc = "sync_last"
  /\ LET me == [procs[p] EXCEPT !.last = lastSyncFile, !.man = NoRef]
     IN  Commit(Eng, Upd(p,
           IF UseLastSync(procs[p].man, me.last)
             THEN [me EXCEPT !.pc = "sync_remote", !.rem = me.last]
             ELSE [ReadRequest(Eng, me, me.last) EXCEPT !.pc = "sync_remote"]))
  /\ EnvUnchanged /\ UNCHANGED <<calls, stopped>>

\* sync resumes with the remote data and enters performSync
syncRemote(p) ==
  /\ procs[p].pc = "sync_remote"
  /\ LET r == performSync(Eng, procs[p], procs[p].rem, procs[p].last)
     IN  Commit(r.g, Upd(p, r.me))
  /\ EnvUnchanged /\ UNCHANGED <<calls, stopped>>

\* what sync does when getLatestRemoteUserData throws: lines 225-226 are
\* outside the inner try, so only the outer finally (the headers) runs
syncRemoteThrows(g, me, e) ==
  [g |-> [g EXCEPT !.syncHeaders = NoHeaders], me |-> Reject(me, e)]

\* the remote read of sync fails (transport error, or parseSyncData throws)
syncRemoteFails(p) ==
  /\ procs[p].pc = "sync_remote"
  /\ procs[p].reqs # <<>>
  /\ LET r == syncRemoteThrows(Eng, procs[p], "Error")
     IN  Commit(r.g, Upd(p, r.me))
  /\ EnvUnchanged /\ UNCHANGED <<calls, stopped>>

(* ---------------------- the strategy's generators ---------------------- *)
\* what a generator does to the instance when it completes: throw, or return
\* the preview pv; a resource strategy may report the conflicts it found
\* through setConflicts before it returns
Generated(g, i, pv, hasError, reports) ==
  IF hasError
    THEN [g EXCEPT !.promises[i].state = "rejected", !.promises[i].base = NoPreview]
    ELSE [(IF reports
             THEN setConflicts(g, IF pv.hasConflicts THEN TheConflicts ELSE <<>>)
             ELSE g)
          EXCEPT !.promises[i].state = "resolved", !.promises[i].base = NoPreview,
                 !.promises[i].value = pv]

\* the generator of a future created by doSync completes: generatePreview
\* (TestSynchroniser: throws when hasError, else a preview carrying the ref of
\* the remote data it was given)
generatePreview(i, hasConflicts, hasError, reports) ==
  /\ promises[i].state = "pending"
  /\ promises[i].by = "doSync"
  /\ Commit(Generated(Eng, i,
                      [promises[i].base EXCEPT
                         !.ref = promises[i].base.remoteUserData.ref,
                         !.hasConflicts = hasConflicts],
                      hasError, reports),
            procs)
  /\ EnvUnchanged /\ UNCHANGED <<calls, stopped>>

\* the generator of a future created by acceptConflict completes:
\* updatePreviewWithConflict returns the preview with the content merged in
updatePreviewWithConflict(i, hasConflicts, hasError, reports) ==
  /\ promises[i].state = "pending"
  /\ promises[i].by = "acceptConflict"
  /\ Commit(Generated(Eng, i,
                      [promises[i].base EXCEPT !.hasConflicts = hasConflicts],
                      hasError, reports),
            procs)
  /\ EnvUnchanged /\ UNCHANGED <<calls, stopped>>

(* ------------------------ doSync and applyPreview ---------------------- *)
\* doSync resumes from await this.syncPreviewPromise
doSyncPreview(p) ==
  /\ procs[p].pc = "ds_await"
  /\ promises[procs[p].pr].state # "pending"
  /\ LET me == procs[p]
         pm == promises[me.pr]
     IN  IF pm.state = "resolved"
           THEN IF pm.value.hasConflicts
                  THEN /\ LET r == afterPerformSync(Eng, me, FALSE, HasConflicts, "none")
                          IN  Commit(r.g, Upd(p, r.me))
                       /\ server' = server
                  ELSE \* applyPreview(preview, false)
                       /\ Commit(applyPreview(Eng, me.pr),
                                 Upd(p, [WriteRequest(Eng, me, pm.value.ref) EXCEPT
                                           !.pc = "ap_write", !.pr = 0]))
                       /\ server' = ServerAfterWrite(pm.value.ref)
           ELSE /\ LET r == doSyncCatch(Eng, me, Thrown(pm))
                   IN  Commit(r.g, Upd(p, r.me))
                /\ server' = server
  /\ UNCHANGED <<enabled, scheduled, lastSyncFile, calls, stopped, extWrites,
                 localFile, localEdits, helper>>

\* applyPreview resumes with the answer to its write: accepted, it goes on to
\* updateLastSyncUserData; rejected, PreconditionFailed is thrown
applyWritten(p) ==
  /\ procs[p].pc = "ap_write"
  /\ LET me == procs[p]
     IN  IF me.wr # NullData
           THEN Commit(Eng, Upd(p, [me EXCEPT !.pc = "ap_last"]))
           ELSE LET r == applyThrows(Eng, me, "PreconditionFailed")
                IN  Commit(r.g, Upd(p, r.me))
  /\ EnvUnchanged /\ UNCHANGED <<calls, stopped>>

\* the write of applyPreview fails for another reason than the precondition
applyFails(p) ==
  /\ procs[p].pc = "ap_write"
  /\ LET r == applyThrows(Eng, procs[p], "Error")
     IN  Commit(r.g, Upd(p, r.me))
  /\ EnvUnchanged /\ UNCHANGED <<calls, stopped>>

\* the last-sync record is written and applyPreview returns
applyDone(p) ==
  /\ procs[p].pc = "ap_last"
  /\ lastSyncFile' = procs[p].wr
  /\ LET r == applyReturns(Eng, procs[p])
     IN  Commit(r.g, Upd(p, r.me))
  /\ UNCHANGED <<enabled, scheduled, server, calls, stopped, extWrites, localFile,
                 localEdits, helper>>

\* performSync's catch resumes with the latest remote data, re-reads the
\* last-sync record (no access to the instance in between) and retries
performSyncRetry(p) ==
  /\ procs[p].pc = "ps_read"
  /\ LET r == performSync(Eng, procs[p], procs[p].rem, lastSyncFile)
     IN  Commit(r.g, Upd(p, r.me))
  /\ EnvUnchanged /\ UNCHANGED <<calls, stopped>>

\* the read made by performSync's catch fails
performSyncReadFails(p) ==
  /\ procs[p].pc = "ps_read"
  /\ LET r == afterPerformSync(Eng, procs[p], TRUE, Idle, "Error")
     IN  Commit(r.g, Upd(p, r.me))
  /\ EnvUnchanged /\ UNCHANGED <<calls, stopped>>

(* ------------------------ pull, push, replace -------------------------- *)
\* pull() up to await this.stop()
pull(p) ==
  /\ CanCall /\ Slot(p) /\ Called
  /\ IF ~enabled
       THEN Commit(Eng, Upd(p, Return(Begin("pull"), "skipped")))
       ELSE Commit(stop(Eng), Upd(p, [Begin("pull") EXCEPT !.pc = "f_stop"]))
  /\ EnvUnchanged

\* push() up to its first await: stop() is called and not awaited
push(p) ==
  /\ CanCall /\ Slot(p) /\ Called
  /\ IF ~enabled
       THEN Commit(Eng, Upd(p, Return(Begin("push"), "skipped")))
       ELSE Commit(setStatus(stop(Eng), Syncing),
                   Upd(p, [Begin("push") EXCEPT !.pc = "f_last"]))
  /\ EnvUnchanged

\* replace(uri) up to await this.resolveContent(uri): a remote-backup handle
\* is resolved by the remote store, a local-backup handle by the backup store
replace(p, uri) ==
  /\ CanCall /\ Slot(p) /\ Called
  /\ LET me == [Begin("replace") EXCEPT !.pc = "rep_resolve", !.uri = uri]
     IN  Commit(Eng, Upd(p,
           IF uri = "remote-backup"
             THEN [me EXCEPT !.reqs =
                     <<Request("resolveContent", NoRef, TRUE, NoRef, NoHeaders)>>]
             ELSE me))
  /\ EnvUnchanged

\* replace resumes with the content: null, text that is no SyncData envelope
\* ("bad": parseSyncData throws Incompatible), or an envelope
replaceResolved(p, content) ==
  /\ procs[p].pc = "rep_resolve"
  /\ procs[p].uri = "other" => content = "null"
  /\ LET me == procs[p]
     IN  CASE content = "null" -> Commit(Eng, Upd(p, Return(me, "false")))
           [] content = "bad" -> Commit(Eng, Upd(p, Reject(me, "Incompatible")))
           [] OTHER -> Commit(stop(Eng), Upd(p, [me EXCEPT !.pc = "f_stop", !.uri = "none"]))
  /\ EnvUnchanged /\ UNCHANGED <<calls, stopped>>

\* pull and replace resume from await this.stop()
forceStopped(p) ==
  /\ procs[p].pc = "f_stop"
  /\ Commit(setStatus(Eng, Syncing), Upd(p, [procs[p] EXCEPT !.pc = "f_last"]))
  /\ EnvUnchanged /\ UNCHANGED <<calls, stopped>>

\* pull, push and replace resume with the last-sync record and ask for the
\* remote data (replace through getLatestRemoteUserData(null, lastSync))
forceLastSync(p) ==
  /\ procs[p].pc = "f_last"
  /\ LET me == [procs[p] EXCEPT !.last = lastSyncFile]
     IN  Commit(Eng, Upd(p,
           IF me.op = "replace" /\ UseLastSync(NoRef, me.last)
             THEN [me EXCEPT !.pc = "f_gen", !.rem = me.last]
             ELSE [ReadRequest(Eng, me, me.last) EXCEPT !.pc = "f_gen"]))
  /\ EnvUnchanged /\ UNCHANGED <<calls, stopped>>

\* an error thrown inside the try of pull, push or replace: finally Idle
forceThrows(g, me, e) ==
  [g |-> setStatus(g, Idle), me |-> Reject(me, e)]

\* they resume with the remote data and await generate{Pull,Push,Replace}Preview
\* (no access to the instance in between); either may throw; then
\* applyPreview(preview, forcePush) is called.  TestSynchroniser's previews of
\* these kinds carry no ref, so its applyPreview writes nothing
forceGenerated(p, hasError) ==
  /\ procs[p].pc = "f_gen"
  /\ IF hasError
       THEN LET r == forceThrows(Eng, procs[p], "Error")
            IN  Commit(r.g, Upd(p, r.me))
       ELSE Commit(Eng, Upd(p, [procs[p] EXCEPT !.pc = "f_apply"]))
  /\ EnvUnchanged /\ UNCHANGED <<calls, stopped>>

\* applyPreview returns (or throws): finally setStatus(Idle)
forceApplied(p, ok) ==
  /\ procs[p].pc = "f_apply"
  /\ LET me == procs[p]
     IN  Commit(setStatus(Eng, Idle), Upd(p,
           IF ok THEN Return(me, IF me.op = "replace" THEN "true" ELSE "void")
                 ELSE Reject(me, "Error")))
  /\ EnvUnchanged /\ UNCHANGED <<calls, stopped>>

(* --------------------------- acceptConflict ---------------------------- *)
\* acceptConflict up to await this.getSyncPreviewInProgress()
acceptConflict(p) ==
  /\ CanCall /\ Slot(p) /\ Called
  /\ Commit(Eng, Upd(p, [Begin("acceptConflict") EXCEPT
                           !.pc = "ac_get", !.pr = syncPreviewPromise]))
  /\ EnvUnchanged

\* the future acceptConflict assigns once it holds a preview with conflicts
acceptConflictFuture(g, preview) ==
  createCancelablePromise(g, "acceptConflict", preview)

\* it resumes with the preview in progress and, if that has conflicts, assigns
\* a new future running updatePreviewWithConflict
acceptConflictPreview(p) ==
  /\ procs[p].pc = "ac_get"
  /\ procs[p].pr # 0 => promises[procs[p].pr].state # "pending"
  /\ LET me == procs[p]
     IN  IF me.pr = 0
           THEN Commit(Eng, Upd(p, Return(me, "ignored")))
           ELSE LET pm == promises[me.pr]
                IN  IF pm.state # "resolved"
                      THEN Commit(Eng, Upd(p, Reject(me, Thrown(pm))))
                      ELSE IF ~pm.value.hasConflicts
                             THEN Commit(Eng, Upd(p, Return(me, "ignored")))
                             ELSE LET g1 == acceptConflictFuture(Eng, pm.value)
                                  IN  Commit(g1, Upd(p, [me EXCEPT
                                                !.pc = "ac_await",
                                                !.pr = g1.syncPreviewPromise]))
  /\ EnvUnchanged /\ UNCHANGED <<calls, stopped>>

\* acceptConflict resumes with the updated preview
acceptConflictUpdated(p) ==
  /\ procs[p].pc = "ac_await"
  /\ promises[procs[p].pr].state # "pending"
  /\ LET me == procs[p]
         pm == promises[me.pr]
     IN  IF pm.state # "resolved"
           THEN /\ Commit(Eng, Upd(p, Reject(me, Thrown(pm))))
                /\ server' = server
           ELSE IF pm.value.hasConflicts
                  THEN /\ Commit(Eng, Upd(p, Return(me, "conflicts")))
                       /\ server' = server
                  ELSE \* applyPreview(preview, false)
                       /\ Commit(applyPreview(Eng, me.pr),
                                 Upd(p, [WriteRequest(Eng, me, pm.value.ref) EXCEPT
                                           !.pc = "ap_write", !.pr = 0]))
                       /\ server' = ServerAfterWrite(pm.value.ref)
  /\ UNCHANGED <<enabled, scheduled, lastSyncFile, calls, stopped, extWrites,
                 localFile, localEdits, helper>>

(* ------------------------- generateSyncPreview ------------------------- *)
generateSyncPreview(p) ==
  /\ CanCall /\ Slot(p) /\ Called
  /\ Commit(Eng, Upd(p,
       IF enabled
         THEN [Begin("generateSyncPreview") EXCEPT !.pc = "gp_last"]
         ELSE Return(Begin("generateSyncPreview"), "null")))
  /\ EnvUnchanged

\* it resumes with the last-sync record and reads the remote data
generateSyncPreviewLastSync(p) ==
  /\ procs[p].pc = "gp_last"
  /\ Commit(Eng, Upd(p,
       [ReadRequest(Eng, [procs[p] EXCEPT !.last = lastSyncFile], lastSyncFile)
          EXCEPT !.pc = "gp_gen"]))
  /\ EnvUnchanged /\ UNCHANGED <<calls, stopped>>

\* it resumes with the remote data and awaits generatePreview (either may
\* throw): the preview is handed to the caller, not applied
generateSyncPreviewDone(p, hasConflicts, hasError, reports) ==
  /\ procs[p].pc = "gp_gen"
  /\ Commit(IF reports /\ ~hasError
              THEN setConflicts(Eng, IF hasConflicts THEN TheConflicts ELSE <<>>)
              ELSE Eng,
            Upd(p, IF hasError THEN Reject(procs[p], "Error")
                               ELSE Return(procs[p], "preview")))
  /\ EnvUnchanged /\ UNCHANGED <<calls, stopped>>

(* ------------------------- the local-change task ----------------------- *)
\* triggerLocalChange scheduling whether the resource is enabled or not
triggerLocalChangeUnguarded ==
  /\ scheduled' = TRUE
  /\ UNCHANGED <<status, conflicts, events, syncPreviewPromise, promises,
                 syncHeaders, enabled, lastSyncFile, server, procs, calls, stopped,
                 extWrites, localFile, localEdits, helper>>

\* triggerLocalChange: (re)schedule the one-shot task when enabled
triggerLocalChange ==
  /\ scheduled' = (scheduled \/ enabled)
  /\ UNCHANGED <<status, conflicts, events, syncPreviewPromise, promises,
                 syncHeaders, enabled, lastSyncFile, server, procs, calls, stopped,
                 extWrites, localFile, localEdits, helper>>

\* AbstractFileSynchroniser.onFileChanges: a file event that covers the
\* resource file triggers a local change, any other is ignored
onFileChanges(contains) ==
  IF contains THEN triggerLocalChange ELSE UNCHANGED vars

\* the scheduler's timeout fires: doTriggerLocalChange up to its first await
doTriggerLocalChange(p) ==
  /\ scheduled
  /\ CanCall /\ Slot(p) /\ Called
  /\ scheduled' = FALSE
  /\ Commit(Eng, Upd(p,
       IF status = HasConflicts
         THEN [Begin("local") EXCEPT !.pc = "lc_await", !.pr = syncPreviewPromise]
         ELSE [Begin("local") EXCEPT !.pc = "lc_last"]))
  /\ UNCHANGED <<enabled, lastSyncFile, server, extWrites, localFile,
                 localEdits, helper>>

\* in conflicts: it resumes with the preview, discards the future and runs
\* performSync with the preview's data (a null future gives a null preview,
\* whose dereference throws after the field was set to null)
localChangePreview(p) ==
  /\ procs[p].pc = "lc_await"
  /\ procs[p].pr # 0 => promises[procs[p].pr].state # "pending"
  /\ LET me == procs[p]
         g1 == [Eng EXCEPT !.syncPreviewPromise = 0]
     IN  IF me.pr = 0
           THEN Commit(g1, Upd(p, Reject(me, "TypeError")))
           ELSE LET pm == promises[me.pr]
                IN  IF pm.state # "resolved"
                      THEN Commit(Eng, Upd(p, Reject(me, Thrown(pm))))
                      ELSE LET r == performSync(g1, me, pm.value.remoteUserData,
                                                pm.value.lastSyncUserData)
                           IN  Commit(r.g, Upd(p, r.me))
  /\ EnvUnchanged /\ UNCHANGED <<calls, stopped>>

\* not in conflicts: it resumes with the last-sync record; with none the
\* remote is taken as changed, otherwise generatePreview(lastSync, lastSync)
localChangeLastSync(p) ==
  /\ procs[p].pc = "lc_last"
  /\ Commit(Eng, Upd(p,
       IF lastSyncFile = NullData
         THEN Return(procs[p], "fired")
         ELSE [procs[p] EXCEPT !.pc = "lc_gen", !.last = lastSyncFile]))
  /\ EnvUnchanged /\ UNCHANGED <<calls, stopped>>

\* the speculative preview is back: fire onDidChangeLocal if hasRemoteChanged
localChangeGenerated(p, hasRemoteChanged, hasConflicts, hasError, reports) ==
  /\ procs[p].pc = "lc_gen"
  /\ Commit(IF reports /\ ~hasError
              THEN setConflicts(Eng, IF hasConflicts THEN TheConflicts ELSE <<>>)
              ELSE Eng,
            Upd(p, IF hasError THEN Reject(procs[p], "Error")
                   ELSE Return(procs[p], IF hasRemoteChanged THEN "fired" ELSE "quiet")))
  /\ EnvUnchanged /\ UNCHANGED <<calls, stopped>>

(* ----------------------- stop and the environment ---------------------- *)
\* a direct call of stop()
Stop ==
  /\ CanCall
  /\ calls' = calls + 1 /\ stopped' = TRUE
  /\ Commit(stop(Eng), procs)
  /\ EnvUnchanged

\* another machine writes the resource: the remote ref advances
ExternalWrite(v) ==
  /\ extWrites < MaxExtWrites
  /\ extWrites' = extWrites + 1
  /\ server' = RemoteUserData(server.ref + 1, v)
  /\ UNCHANGED <<status, conflicts, events, syncPreviewPromise, promises,
                 syncHeaders, enabled, scheduled, lastSyncFile, procs, calls, stopped,
                 localFile, localEdits, helper>>

\* setResourceEnablement(resource, b)
SetEnablement(b) ==
  /\ enabled # b
  /\ CanCall /\ Called
  /\ enabled' = b
  /\ UNCHANGED <<status, conflicts, events, syncPreviewPromise, promises,
                 syncHeaders, scheduled, lastSyncFile, server, procs, extWrites,
                 localFile, localEdits, helper>>

(* --------------------------- specification ----------------------------- *)
InitEngine ==
  /\ status = Idle
  /\ conflicts = <<>>
  /\ events = <<>>
  /\ syncPreviewPromise = 0
  /\ promises = <<>>
  /\ syncHeaders = NoHeaders
  /\ enabled \in BOOLEAN
  /\ scheduled = FALSE
  /\ lastSyncFile = NullData
  /\ server = RemoteUserData(0, 0)
  /\ procs = [p \in Procs |-> Blank]
  /\ calls = 0
  /\ stopped = FALSE
  /\ extWrites = 0
  /\ localFile = NoFile
  /\ localEdits = 0

Init == InitEngine /\ helper = NoHelper

\* the calls a client (or the scheduler) makes; serial: only when no
\* invocation is in flight
Call(serial) ==
  /\ serial => Quiescent
  /\ \/ \E p \in Procs, r \in {NoRef, server.ref}, h \in Headers : sync(p, r, h)
     \/ \E p \in Procs : pull(p)
     \/ \E p \in Procs : push(p)
     \/ \E p \in Procs, u \in Uris : replace(p, u)
     \/ \E p \in Procs : acceptConflict(p)
     \/ \E p \in Procs : generateSyncPreview(p)
     \/ \E p \in Procs : doTriggerLocalChange(p)
     \/ Stop

\* the invocations in flight resume, the generators complete
Resume ==
  \/ \E p \in Procs : syncStopped(p)
  \/ \E p \in Procs : syncLastSync(p)
  \/ \E p \in Procs : syncRemote(p)
  \/ \E p \in Procs : syncRemoteFails(p)
  \/ \E i \in 1..Len(promises), hc \in BOOLEAN, he \in BOOLEAN, rp \in BOOLEAN :
        generatePreview(i, hc, he, rp)
  \/ \E i \in 1..Len(promises), hc \in BOOLEAN, he \in BOOLEAN, rp \in BOOLEAN :
        updatePreviewWithConflict(i, hc, he, rp)
  \/ \E p \in Procs : doSyncPreview(p)
  \/ \E p \in Procs : applyWritten(p)
  \/ \E p \in Procs : applyFails(p)
  \/ \E p \in Procs : applyDone(p)
  \/ \E p \in Procs : performSyncRetry(p)
  \/ \E p \in Procs : performSyncReadFails(p)
  \/ \E p \in Procs, c \in Contents : replaceResolved(p, c)
  \/ \E p \in Procs : forceStopped(p)
  \/ \E p \in Procs : forceLastSync(p)
  \/ \E p \in Procs, he \in BOOLEAN : forceGenerated(p, he)
  \/ \E p \in Procs, ok \in BOOLEAN : forceApplied(p, ok)
  \/ \E p \in Procs : acceptConflictPreview(p)
  \/ \E p \in Procs : acceptConflictUpdated(p)
  \/ \E p \in Procs : generateSyncPreviewLastSync(p)
  \/ \E p \in Procs, hc \in BOOLEAN, he \in BOOLEAN, rp \in BOOLEAN :
        generateSyncPreviewDone(p, hc, he, rp)
  \/ \E p \in Procs : localChangePreview(p)
  \/ \E p \in Procs : localChangeLastSync(p)
  \/ \E p \in Procs, rc \in BOOLEAN, hc \in BOOLEAN, he \in BOOLEAN, rp \in BOOLEAN :
        localChangeGenerated(p, rc, hc, he, rp)

\* what happens around the instance
Environment ==
  \/ triggerLocalChange
  \/ \E c \in BOOLEAN : onFileChanges(c)
  \/ \E v \in Versions : ExternalWrite(v)
  \/ \E b \in BOOLEAN : SetEnablement(b)

Next == Call(FALSE) \/ Resume \/ Environment

Spec == Init /\ [][Next]_vars

\* the same instance with a client that awaits each call before the next
NextSerial == Call(TRUE) \/ Resume \/ Environment

SpecSerial == Init /\ [][NextSerial]_vars

(* ---------------------- file-backed synchroniser ----------------------- *)
\* AbstractFileSynchroniser.getLocalFileContent: the content read, null (0)
\* when the read fails for whatever reason
getLocalFileContent == IF localFile.state = "file" THEN localFile.rev ELSE 0

\* the file service's answer to the write of updateLocalFileContent: with a
\* snapshot a write conditional on the snapshot's revision, without one a
\* create that does not overwrite
FileWrite(oldContent) ==
  IF oldContent # 0
    THEN CASE localFile.state = "absent" -> "FileNotFound"
           [] localFile.rev # oldContent -> "FileModifiedSince"
           [] OTHER -> "written"
    ELSE IF localFile.state = "absent" THEN "written" ELSE "FileModifiedSince"

\* the catch of updateLocalFileContent with every file error converted
updateLocalFileContentConvertsAll(e) == "LocalPreconditionFailed"

\* the catch of updateLocalFileContent: what it throws for a file error
updateLocalFileContentCatch(e) ==
  IF e \in {"FileNotFound", "FileModifiedSince"}
    THEN "LocalPreconditionFailed"
    ELSE e

\* generatePreview of a file-backed strategy: as generatePreview, and the
\* preview keeps what getLocalFileContent read
generatePreviewFile(i, hasConflicts, hasError, reports) ==
  /\ promises[i].state = "pending"
  /\ promises[i].by = "doSync"
  /\ Commit(Generated(Eng, i,
                      [promises[i].base EXCEPT
                         !.ref = promises[i].base.remoteUserData.ref,
                         !.hasConflicts = hasConflicts,
                         !.fileContent = getLocalFileContent],
                      hasError, reports),
            procs)
  /\ EnvUnchanged /\ UNCHANGED <<calls, stopped>>

\* doSync resumes from await this.syncPreviewPromise; applyPreview of a
\* file-backed strategy starts with updateLocalFileContent(content, snapshot),
\* whose write the file service answers (ioError: it fails for a reason other
\* than the state of the file)
doSyncPreviewFile(p, ioError) ==
  /\ procs[p].pc = "ds_await"
  /\ promises[procs[p].pr].state # "pending"
  /\ LET me == procs[p]
         pm == promises[me.pr]
     IN  IF pm.state = "resolved" /\ ~pm.value.hasConflicts
           THEN LET w == IF ioError THEN "Error" ELSE FileWrite(pm.value.fileContent)
                IN  /\ Commit(applyPreview(Eng, me.pr),
                              Upd(p, [me EXCEPT !.pc = "ap_local", !.lw = w]))
                    /\ localFile' = IF w = "written"
                                      THEN [rev |-> localFile.rev + 1, state |-> "file"]
                                      ELSE localFile
                    /\ UNCHANGED <<enabled, scheduled, lastSyncFile, server, calls, stopped,
                                   extWrites, localEdits, helper>>
           ELSE /\ ~ioError
                /\ doSyncPreview(p)

\* the futures that can still be observed after a step, renumbered from 1 in
\* their order (the futures dropped by a retry would otherwise pile up in
\* front of the new one, one for each retry)
Observable(g, ps, i) ==
  \/ g.promises[i].state = "pending"
  \/ i = g.syncPreviewPromise
  \/ \E q \in Procs : ps[q].pr = i

NewIndex(g, ps, i) ==
  IF i = 0 THEN 0 ELSE Cardinality({j \in 1..i : Observable(g, ps, j)})

Renumbered(g, ps) ==
  LET keep == {i \in 1..Len(g.promises) : Observable(g, ps, i)}
  IN  [g |-> [g EXCEPT
                !.promises = [k \in 1..Cardinality(keep) |->
                                g.promises[CHOOSE i \in keep : NewIndex(g, ps, i) = k]],
                !.syncPreviewPromise = NewIndex(g, ps, @)],
       ps |-> [q \in Procs |-> [ps[q] EXCEPT !.pr = NewIndex(g, ps, @)]]]

\* updateLocalFileContent resumes with the answer of the file service: the
\* file written, applyPreview goes on to updateRemoteUserData; otherwise the
\* error of the catch is thrown out of applyPreview
updateLocalFileContent(p) ==
  /\ procs[p].pc = "ap_local"
  /\ LET me == procs[p]
         pm == promises[me.pr]
     IN  IF me.lw = "written"
           THEN /\ Commit(Eng, Upd(p, [WriteRequest(Eng, me, pm.value.ref) EXCEPT
                                         !.pc = "ap_write", !.pr = 0]))
                /\ server' = ServerAfterWrite(pm.value.ref)
           ELSE /\ LET r == applyThrows(Eng, me, updateLocalFileContentCatch(me.lw))
                       n == Renumbered(r.g, Upd(p, r.me))
                   IN  Commit(n.g, n.ps)
                /\ server' = server
  /\ UNCHANGED <<enabled, scheduled, lastSyncFile, calls, stopped, extWrites, localFile,
                 localEdits, helper>>

\* the user changes the resource file: edits it, replaces it by something
\* that cannot be read, or deletes it
LocalEdit(state) ==
  /\ localEdits < MaxLocalEdits
  /\ localEdits' = localEdits + 1
  /\ localFile.state = "absent" => state # "absent"
  /\ localFile' = [rev |-> localFile.rev + 1, state |-> state]
  /\ UNCHANGED <<status, conflicts, events, syncPreviewPromise, promises,
                 syncHeaders, enabled, scheduled, lastSyncFile, server, procs,
                 calls, stopped, extWrites, helper>>

\* push() of a file-backed synchroniser up to its first await: the call of
\* AbstractFileSynchroniser.stop() runs super.stop() and is left suspended at
\* its await (invocation q), push itself goes on to setStatus(Syncing)
pushFile(p, q) ==
  /\ CanCall /\ Slot(p) /\ Called
  /\ q # p /\ Free(q)
  /\ IF ~enabled
       THEN Commit(Eng, Upd(p, Return(Begin("push"), "skipped")))
       ELSE Commit(setStatus(stop(Eng), Syncing),
                   [procs EXCEPT ![p] = [Begin("push") EXCEPT !.pc = "f_last"],
                                 ![q] = [Begin("stop") EXCEPT !.pc = "st_del"]])
  /\ EnvUnchanged

\* AbstractFileSynchroniser.stop resumes after super.stop(): it deletes the
\* preview file (errors ignored) and returns
stopFile(q) ==
  /\ procs[q].op = "stop" /\ procs[q].pc = "st_del"
  /\ Commit(Eng, Upd(q, Return(procs[q], "void")))
  /\ EnvUnchanged /\ UNCHANGED <<calls, stopped>>

\* the calls made to a file-backed synchroniser, each awaited before the next
CallFile ==
  /\ Quiescent
  /\ \/ \E p \in Procs, r \in {NoRef, server.ref}, h \in Headers : sync(p, r, h)
     \/ \E p \in Procs : doTriggerLocalChange(p)
     \/ \E p \in Procs, q \in Procs : pushFile(p, q)

ResumeFile ==
  \/ \E p \in Procs : syncLastSync(p)
  \/ \E p \in Procs : syncRemote(p)
  \/ \E i \in 1..Len(promises), hc \in BOOLEAN, he \in BOOLEAN, rp \in BOOLEAN :
        generatePreviewFile(i, hc, he, rp)
  \/ \E p \in Procs, io \in BOOLEAN : doSyncPreviewFile(p, io)
  \/ \E p \in Procs : updateLocalFileContent(p)
  \/ \E p \in Procs : applyWritten(p)
  \/ \E p \in Procs : applyDone(p)
  \/ \E p \in Procs : performSyncRetry(p)
  \/ \E p \in Procs : stopFile(p)
  \/ \E p \in Procs : forceLastSync(p)
  \/ \E p \in Procs, he \in BOOLEAN : forceGenerated(p, he)
  \/ \E p \in Procs, ok \in BOOLEAN : forceApplied(p, ok)
  \/ \E p \in Procs : localChangePreview(p)
  \/ \E p \in Procs : localChangeLastSync(p)
  \/ \E p \in Procs, rc \in BOOLEAN, hc \in BOOLEAN, he \in BOOLEAN, rp \in BOOLEAN :
        localChangeGenerated(p, rc, hc, he, rp)

EnvironmentFile ==
  \/ \E c \in BOOLEAN : onFileChanges(c)
  \/ \E v \in Versions : ExternalWrite(v)
  \/ \E s \in FileStates : LocalEdit(s)

NextFile == CallFile \/ ResumeFile \/ EnvironmentFile

InitFile == Init /\ enabled

SpecFile == InitFile /\ [][NextFile]_vars

(* --------------------- helpers run on their own ------------------------ *)
\* the largest ref of the data the helpers are run on
MaxRef == 2
Refs == 0..MaxRef

\* a helper runs on the side of the instance
EngineUnchanged ==
  UNCHANGED <<status, conflicts, events, syncPreviewPromise, promises,
              syncHeaders, enabled, scheduled, lastSyncFile, server, procs,
              calls, stopped, extWrites, localFile, localEdits>>

\* IUserDataManifest | null, as far as this resource goes: no manifest, a
\* manifest without an entry for the resource (ref = NoRef), or one with the
\* latest ref of the resource
NullManifest == [manifest |-> FALSE, ref |-> NoRef]
Manifests ==
  {NullManifest} \cup {[manifest |-> TRUE, ref |-> r] : r \in Refs \cup {NoRef}}

\* the IRemoteUserData | null a caller may hold: null, or a ref with no
\* envelope (ver = 0) or with an envelope of some version
UserDatas ==
  {NullData} \cup {RemoteUserData(r, v) : r \in Refs, v \in {0} \cup Versions}

\* manifest && manifest.latest ? manifest.latest[this.resource] : undefined
latestRefOf(manifest) ==
  IF manifest.manifest THEN manifest.ref ELSE NoRef

\* getLatestRemoteUserData: the last-sync record without a read, or the
\* answer of getRemoteUserData(lastSyncUserData), one read
getLatestRemoteUserData(manifest, lastSyncUserData) ==
  IF UseLastSync(latestRefOf(manifest), lastSyncUserData)
    THEN [reads |-> 0, data |-> lastSyncUserData]
    ELSE [reads |-> 1, data |-> server]

InitLatest ==
  /\ InitEngine
  /\ helper \in [call : {"getLatestRemoteUserData"}, manifest : Manifests,
                  lastSyncUserData : UserDatas, returned : {FALSE},
                  ret : {[reads |-> 0, data |-> NullData]}]

getLatestRemoteUserDataReturns ==
  /\ helper.call = "getLatestRemoteUserData"
  /\ ~helper.returned
  /\ helper' = [helper EXCEPT
                  !.returned = TRUE,
                  !.ret = getLatestRemoteUserData(helper.manifest,
                                                  helper.lastSyncUserData)]
  /\ EngineUnchanged

SpecLatest == InitLatest /\ [][getLatestRemoteUserDataReturns]_vars

(* ------------------------ the last-sync record ------------------------- *)
\* JSON values: null, undefined, an object (a function from its keys), and a
\* string, which is the text of a JSON value or some other text
Null == [kind |-> "null"]
Undefined == [kind |-> "undefined"]
Text == [kind |-> "text"]

\* JSON.stringify(value) and JSON.parse(string); Parsable tells whether
\* JSON.parse returns rather than throws
Stringify(value) == [kind |-> "json", value |-> value]
Parsable(string) == string.kind = "json"
Parse(string) == string.value

\* { ...a, ...b }
Spread(a, b) ==
  [k \in DOMAIN a \cup DOMAIN b |-> IF k \in DOMAIN b THEN b[k] ELSE a[k]]

\* ISyncData as updateRemoteUserData builds it, by a machine of version v
SyncData(v) == [version |-> v, machineId |-> "m", content |-> "c"]

\* isSyncData (the values of version, content and machineId have the right
\* types in every object of the model, so only the keys decide)
isSyncData(thing) ==
  /\ "version" \in DOMAIN thing
  /\ "content" \in DOMAIN thing
  /\ \/ Cardinality(DOMAIN thing) = 2
     \/ Cardinality(DOMAIN thing) = 3 /\ "machineId" \in DOMAIN thing

\* the additional properties a strategy may store with the record
PropKeys == {"a", "b"}
PropValues == {1, 2}
Props == UNION {[ks -> PropValues] : ks \in SUBSET PropKeys}

\* updateLastSyncUserData: the text written to the last-sync file
updateLastSyncUserData(lastSyncRemoteUserData, additionalProps) ==
  Stringify(Spread([ref |-> lastSyncRemoteUserData.ref,
                    content |-> IF lastSyncRemoteUserData.syncData # Null
                                  THEN Stringify(lastSyncRemoteUserData.syncData)
                                  ELSE Null],
                   additionalProps))

\* getLastSyncUserData: the record loaded from the last-sync file, or null
\* (the file is not there, or a parse throws, or the content is no envelope)
getLastSyncUserData(file) ==
  IF file.kind = "absent" \/ ~Parsable(file)
    THEN Null
    ELSE LET parsed == Parse(file)
         IN  IF parsed.content = Null
               THEN [ref |-> parsed.ref, syncData |-> Null]
               ELSE IF ~Parsable(parsed.content)
                      THEN Null
                      ELSE LET syncData == Parse(parsed.content)
                           IN  IF isSyncData(syncData)
                                 THEN Spread(parsed, [syncData |-> syncData,
                                                      content |-> Undefined])
                                 ELSE Null

\* the remote data a strategy may hand to updateLastSyncUserData
RemoteDatas ==
  {[ref |-> r, syncData |-> d] :
     r \in Refs, d \in {Null} \cup {SyncData(v) : v \in Versions}}

\* what the last-sync file may hold when the instance is created: nothing,
\* text that is no JSON, or a record written by this or another build
PersistedFiles ==
  {[kind |-> "absent"], Text}
    \cup {Stringify([ref |-> 0, content |-> c]) :
            c \in {Null, Text, Stringify([content |-> "c"])}
                  \cup {Stringify(SyncData(v)) : v \in Versions}}

InitLastSync ==
  /\ InitEngine
  /\ helper \in [call : {"lastSync"}, file : PersistedFiles,
                  remote : RemoteDatas, props : Props, pc : {"start"},
                  ret : {Null}]

\* a strategy stores the record
updateLastSyncUserDataReturns ==
  /\ helper.call = "lastSync" /\ helper.pc = "start"
  /\ helper' = [helper EXCEPT
                  !.file = updateLastSyncUserData(helper.remote, helper.props),
                  !.pc = "written"]
  /\ EngineUnchanged

\* the record is loaded: the one found at start, or the one just stored
getLastSyncUserDataReturns ==
  /\ helper.call = "lastSync" /\ helper.pc \in {"start", "written"}
  /\ helper' = [helper EXCEPT
                  !.ret = getLastSyncUserData(helper.file),
                  !.pc = IF helper.pc = "start" THEN "loaded" ELSE "reloaded"]
  /\ EngineUnchanged

NextLastSync == updateLastSyncUserDataReturns \/ getLastSyncUserDataReturns

SpecLastSync == InitLastSync /\ [][NextLastSync]_vars

(* ------------------------------ claims --------------------------------- *)
\* the status values a listener registered at construction has seen, with
\* the initial status in front: the sequence of statuses the instance was in
StatusHistory == <<Idle>> \o events

\* C1: after any public operation has completed and no other is in flight,
\* the status is Idle or HasConflicts, never Syncing, whatever the outcome of
\* the remote read, the last-sync read, the generation and the application.
C1_NeverLeftSyncing ==
  (Quiescent /\ calls > 0) => status \in {Idle, HasConflicts}

\* C2: in every reachable state the conflict list is non-empty if and only
\* if the status is HasConflicts.
C2_ConflictsIffHasConflicts ==
  (conflicts # <<>>) <=> (status = HasConflicts)

\* C2 (amended): every step in which the status becomes Idle or Syncing
\* leaves the conflict list empty; the list itself is set only by the
\* strategy, so it may be non-empty while Syncing and empty in HasConflicts.
C2_ClearedOnLeaving ==
  [][(events' # events /\ status' # HasConflicts) => conflicts' = <<>>]_vars

\* the status has left HasConflicts and the list is empty
C2_Witness ==
  /\ Len(events) >= 3
  /\ events[Len(events) - 1] = HasConflicts
  /\ status = Idle
  /\ conflicts = <<>>

\* C3: HasConflicts implies that a preview future exists and that the preview
\* it holds has conflicts, also at the suspension points of acceptConflict and
\* of the local-change task and after either fails.
C3_HasConflictsHoldsPreview ==
  status = HasConflicts =>
    /\ syncPreviewPromise # 0
    /\ promises[syncPreviewPromise].state = "resolved"
    /\ promises[syncPreviewPromise].value.hasConflicts

\* a step that assigns a new preview future to the field
Created == syncPreviewPromise' # 0 /\ syncPreviewPromise' > Len(promises)

\* C4: a new preview future is created (by doSync or by acceptConflict) only
\* when the field is null; a non-null preview future is never overwritten.
C4_CreatedOnlyWhenNull ==
  [][Created => syncPreviewPromise = 0]_vars

\* the local-change task resumes in conflicts: it clears the field itself
\* (line 115) before it calls performSync
ClearsFirst == \E p \in Procs : procs[p].pc = "lc_await" /\ procs'[p].pc # "lc_await"

\* C4 (amended): doSync creates a preview future only when it finds the field
\* null (the field was null, or the local-change task has just cleared it);
\* acceptConflict assigns one, whatever the field holds, and only for a
\* preview that has conflicts.
C4_DoSyncCreatesOnlyWhenNull ==
  [][Created =>
       /\ promises'[syncPreviewPromise'].state = "pending"
       /\ promises'[syncPreviewPromise'].by = "doSync" =>
            (syncPreviewPromise = 0 \/ ClearsFirst)
       /\ promises'[syncPreviewPromise'].by = "acceptConflict" =>
            promises'[syncPreviewPromise'].base.hasConflicts]_vars

\* acceptConflict has replaced the future that doSync created
C4_Witness ==
  /\ syncPreviewPromise > 1
  /\ promises[syncPreviewPromise].by = "acceptConflict"

\* what a refused sync leaves alone: no status event, status, conflicts and
\* preview future unchanged, no generator started, no request made
Refused(p) ==
  /\ UNCHANGED <<status, conflicts, events, syncPreviewPromise, promises>>
  /\ procs'[p].pc = "done"
  /\ procs'[p].reqs = <<>>

\* C5: a sync called while the status is Syncing or HasConflicts is a no-op.
C5_SyncRefused ==
  [][\A p \in Procs, r \in {NoRef, server.ref}, h \in Headers :
       (sync(p, r, h) /\ status \in {Syncing, HasConflicts}) => Refused(p)]_vars

\* C5 (amended): a sync called while the resource is enabled and the status
\* is Syncing or HasConflicts is a no-op.
C5_EnabledSyncRefused ==
  [][\A p \in Procs, r \in {NoRef, server.ref}, h \in Headers :
       (sync(p, r, h) /\ enabled /\ status \in {Syncing, HasConflicts})
         => Refused(p)]_vars

\* a sync was refused while another sync is in flight
C5_Witness ==
  /\ enabled
  /\ status = Syncing
  /\ procs[1].op = "sync" /\ procs[1].pc # "done"
  /\ procs[2].op = "sync" /\ procs[2].res = "skipped"

\* C6: while the resource is disabled no reconciliation operation issues any
\* request to the remote store, and a disabled sync from Idle fires no
\* status event.
C6_NoRequestWhileDisabled ==
  [][/\ \A p \in Procs :
          Len(procs'[p].reqs) > Len(procs[p].reqs) =>
            procs'[p].reqs[Len(procs'[p].reqs)].en
     /\ \A p \in Procs, r \in {NoRef, server.ref}, h \in Headers :
          (sync(p, r, h) /\ ~enabled /\ status = Idle) => events' = events]_vars

\* C7: every change of the status fires the event once with the new value
\* and an equal status fires nothing: the values delivered are exactly the
\* successive statuses, so no two consecutive values are equal.
C7_OneEventPerChange ==
  /\ StatusHistory[Len(StatusHistory)] = status
  /\ \A i \in 1..Len(events) : StatusHistory[i] # StatusHistory[i + 1]

\* three changes were delivered
C7_Witness ==
  events = <<Syncing, HasConflicts, Idle>> /\ status = Idle /\ calls = MaxCalls

Allowed ==
  {<<Idle, Syncing>>, <<Syncing, Idle>>, <<Syncing, HasConflicts>>,
   <<HasConflicts, Syncing>>, <<HasConflicts, Idle>>}

\* C8: the only status transitions are Idle->Syncing, Syncing->Idle,
\* Syncing->HasConflicts, HasConflicts->Syncing and HasConflicts->Idle.
C8_AllowedTransitions ==
  \A i \in 1..Len(events) : <<StatusHistory[i], StatusHistory[i + 1]>> \in Allowed

\* the requests one invocation made after a write was rejected: the next is
\* a read of the latest data with no cached last-sync, and the one after it
\* a write whose If-Match is the ref that read returned, accepted unless the
\* remote ref moved again in between
RetryShape(reqs) ==
  \A i \in 1..Len(reqs) :
    (reqs[i].type = "write" /\ ~reqs[i].ok) =>
      /\ i + 1 <= Len(reqs) =>
           reqs[i + 1].type = "read" /\ reqs[i + 1].ref = NoRef
      /\ i + 2 <= Len(reqs) =>
           /\ reqs[i + 2].type = "write"
           /\ reqs[i + 2].ref = reqs[i + 1].got
           /\ reqs[i + 2].srv = reqs[i + 1].got => reqs[i + 2].ok

\* C9: when the write of a sync is rejected with PreconditionFailed, the
\* sync reads the latest remote data with no cached last-sync, generates a
\* new preview from it and retries: write If-Match R (rejected), read latest,
\* write If-Match R' (accepted); and the sync completes Idle.
C9_RetryOnPreconditionFailed ==
  [][\A p \in Procs :
       /\ procs'[p].op = "sync" => RetryShape(procs'[p].reqs)
       /\ (procs[p].op = "sync" /\ procs[p].pc = "ap_last" /\ procs'[p].pc = "done")
            => status' = Idle /\ procs'[p].res = Idle]_vars

\* a sync whose first write was rejected has had its second write accepted
C9_Witness ==
  \E p \in Procs :
    /\ procs[p].op = "sync" /\ procs[p].pc = "ap_last"
    /\ Len(procs[p].reqs) >= 3
    /\ LET n == Len(procs[p].reqs)
       IN  /\ procs[p].reqs[n - 2].type = "write" /\ ~procs[p].reqs[n - 2].ok
           /\ procs[p].reqs[n - 1].type = "read"
           /\ procs[p].reqs[n].type = "write" /\ procs[p].reqs[n].ok

\* the invocation is inside applyPreview
InApply(p) == procs[p].pc \in {"ap_write", "ap_last", "f_apply"}

\* C10: single-flight: two applyPreview invocations never overlap.
C10_SingleFlight ==
  Cardinality({p \in Procs : InApply(p)}) <= 1

\* the invocation hands the preview of the future it awaited to applyPreview
AppliesAwaited(p) ==
  procs[p].pc \in {"ds_await", "ac_await"} /\ procs'[p].pc = "ap_write"

\* C11: once a preview future has been cancelled (stop, called directly or
\* from pull, replace or a disabled sync), the preview it holds is never
\* afterwards passed to applyPreview.
C11_CancelledNeverApplied ==
  [][\A p \in Procs :
       AppliesAwaited(p) => ~promises[procs[p].pr].cancellationRequested]_vars

\* the invocation has just made a request to the remote store
Requested(p) == Len(procs'[p].reqs) > Len(procs[p].reqs)
LastRequest(p) == procs'[p].reqs[Len(procs'[p].reqs)]

\* C12: the headers passed to one sync invocation are attached to every
\* remote read and write it makes, also when a second sync call arrives and
\* is refused in between, and the stored headers are empty once it completes.
C12_HeadersOfTheInvocation ==
  [][\A p \in Procs :
       /\ (procs[p].op = "sync" /\ Requested(p)) =>
            LastRequest(p).hdr = procs[p].hdr
       /\ (procs[p].op = "sync" /\ ~Free(p) /\ procs'[p].pc = "done") =>
            syncHeaders' = NoHeaders]_vars

\* the last two values delivered to a status listener
LastTwo(evs) == IF Len(evs) < 2 THEN <<>> ELSE SubSeq(evs, Len(evs) - 1, Len(evs))

\* the writes an invocation has made so far, and the accepted ones among them
Writes(reqs) == {i \in 1..Len(reqs) : reqs[i].type = "write"}
AcceptedWrites(reqs) == {i \in Writes(reqs) : reqs[i].ok}

\* the preview that doSync's await delivers to invocation p
Delivered(p) ==
  /\ procs[p].pc = "ds_await"
  /\ procs'[p].pc # "ds_await"
  /\ promises[procs[p].pr].state = "resolved"

\* C13: a sync started from Idle with no competing operation ends by the
\* hasConflicts flag of the generated preview: if true the status becomes
\* HasConflicts ([Syncing, HasConflicts]), nothing is applied and the future
\* is retained; if false the preview is applied once, after it was generated,
\* the future is set to null and the status becomes Idle ([Syncing, Idle]).
C13_SyncEndsByPreview ==
  [][\A p \in Procs : procs[p].op = "sync" =>
       /\ (Delivered(p) /\ promises[procs[p].pr].value.hasConflicts) =>
            /\ procs'[p].pc = "done" /\ procs'[p].res = HasConflicts
            /\ status' = HasConflicts
            /\ LastTwo(events') = <<Syncing, HasConflicts>>
            /\ syncPreviewPromise' = procs[p].pr
            /\ promises'[procs[p].pr] = promises[procs[p].pr]
            /\ server' = server /\ lastSyncFile' = lastSyncFile
       /\ (Delivered(p) /\ ~promises[procs[p].pr].value.hasConflicts) =>
            /\ procs'[p].pc = "ap_write"
            /\ Requested(p)
            /\ LastRequest(p).type = "write"
            /\ LastRequest(p).ref = promises[procs[p].pr].value.ref
       /\ (procs[p].pc = "ap_last" /\ procs'[p].pc = "done") =>
            /\ procs'[p].res = Idle
            /\ status' = Idle
            /\ LastTwo(events') = <<Syncing, Idle>>
            /\ syncPreviewPromise' = 0
            /\ Cardinality(AcceptedWrites(procs[p].reqs)) = 1
            /\ (Writes(procs[p].reqs) = AcceptedWrites(procs[p].reqs)) =>
                 Cardinality(Writes(procs[p].reqs)) = 1]_vars

\* one sync has ended Idle and the next one in conflicts
C13_Witness ==
  /\ events = <<Syncing, Idle, Syncing, HasConflicts>>
  /\ status = HasConflicts
  /\ syncPreviewPromise # 0
  /\ promises[syncPreviewPromise].state = "resolved"
  /\ lastSyncFile # NullData
  /\ Quiescent

\* the strategy throws inside doSync's try: the generator of the awaited
\* future has thrown, or applyPreview throws another error than a
\* precondition failure
StrategyThrows(p) ==
  \/ /\ procs[p].pc = "ds_await" /\ procs'[p].pc # "ds_await"
     /\ promises[procs[p].pr].state = "rejected"
  \/ applyFails(p)

\* C14: if the strategy throws an error that is no precondition failure while
\* generating or applying the preview during sync, the sync rejects with that
\* error, the preview future is null and the status Idle afterwards, and the
\* listener has seen [Syncing, Idle].
C14_SyncRejectsOnError ==
  [][\A p \in Procs : (procs[p].op = "sync" /\ StrategyThrows(p)) =>
       /\ procs'[p].pc = "done"
       /\ procs'[p].res = "rejected" /\ procs'[p].err = "Error"
       /\ syncPreviewPromise' = 0
       /\ status' = Idle
       /\ LastTwo(events') = <<Syncing, Idle>>]_vars

\* a sync was rejected with the strategy's error after the status was reset
C14_Witness ==
  /\ procs[1].op = "sync" /\ procs[1].res = "rejected" /\ procs[1].err = "Error"
  /\ events = <<Syncing, Idle>>
  /\ status = Idle /\ syncPreviewPromise = 0
  /\ calls = 1

\* the scheduled task runs: doTriggerLocalChange is entered
TaskStarts ==
  \E p \in Procs : Free(p) /\ procs'[p].op = "local" /\ procs'[p].pc # "done"

SpeculativeStep(p) ==
  /\ procs[p].op = "local"
  /\ procs[p].pc \in {"lc_last", "lc_gen"}
  /\ procs'[p] # procs[p]

\* C16: a local-change task that runs while the status is not HasConflicts
\* makes no request to the remote store and leaves the status, the conflict
\* list, the preview future and the last-sync record unchanged.
C16_LocalChangeReadOnly ==
  [][\A p \in Procs : SpeculativeStep(p) =>
       /\ UNCHANGED <<status, events, conflicts, syncPreviewPromise, promises,
                      lastSyncFile, server>>
       /\ procs'[p].reqs = <<>>]_vars

\* sync enters performSync with remote data of a newer version than the
\* strategy's
EntersIncompatible(p) ==
  /\ procs[p].op = "sync"
  /\ procs[p].rem.ver > version
  /\ syncRemote(p) \/ performSyncRetry(p)

\* C17: if the remote envelope's version is greater than the strategy's, sync
\* fails with Incompatible without generating or applying a preview, without
\* a retry or a further remote request, and the status is Idle afterwards.
C17_IncompatibleFails ==
  [][\A p \in Procs : EntersIncompatible(p) =>
       /\ procs'[p].pc = "done"
       /\ procs'[p].res = "rejected" /\ procs'[p].err = "Incompatible"
       /\ status' = Idle
       /\ UNCHANGED <<syncPreviewPromise, promises, server, lastSyncFile>>]_vars

\* the first sync met a newer envelope and failed
C17_Witness ==
  /\ procs[1].op = "sync" /\ procs[1].err = "Incompatible"
  /\ server.ver > version
  /\ events = <<Syncing, Idle>> /\ status = Idle
  /\ promises = <<>> /\ lastSyncFile = NullData
  /\ calls = 1

\* C18: when the write of the resource file made by applyPreview fails with
\* FileNotFound or FileModifiedSince, the invocation goes back to doSync with
\* the remote data and last-sync data performSync was given, sends nothing to
\* the remote store, and awaits a new pending preview future generated from
\* those data; when the write fails with another error the invocation
\* rejects with that error and no preview future is left
C18_LocalPreconditionRetry ==
  [][\A p \in Procs :
       (procs[p].pc = "ap_local" /\ procs'[p] # procs[p]) =>
         LET me == procs[p]
             nx == procs'[p]
         IN  /\ me.lw \in {"FileNotFound", "FileModifiedSince"} =>
                  /\ nx.pc = "ds_await"
                  /\ nx.rem = me.rem /\ nx.last = me.last
                  /\ nx.reqs = me.reqs
                  /\ server' = server
                  /\ nx.pr # 0 /\ syncPreviewPromise' = nx.pr
                  /\ promises'[nx.pr].state = "pending"
                  /\ promises'[nx.pr].base.remoteUserData = me.rem
                  /\ promises'[nx.pr].base.lastSyncUserData = me.last
             /\ me.lw = "Error" =>
                  /\ nx.pc = "done" /\ nx.res = "rejected" /\ nx.err = "Error"
                  /\ syncPreviewPromise' = 0]_vars

\* an invocation awaits the preview of a retry made after the resource file
\* was found modified
C18_Witness ==
  \E p \in Procs :
    /\ procs[p].pc = "ds_await"
    /\ procs[p].lw \in {"FileNotFound", "FileModifiedSince"}
    /\ promises[procs[p].pr].state = "pending"

\* the file-backed synchroniser with every continuation eventually run: an
\* awaited call is answered, a generator being awaited completes
SpecFileFair == SpecFile /\ WF_vars(ResumeFile)

\* C19: a sync that has set the status to Syncing completes, and the status
\* leaves Syncing, once the other machines and the user have made their
\* (finitely many) changes
C19_SyncTerminates ==
  /\ \A p \in Procs :
       (procs[p].op = "sync" /\ procs[p].pc # "done") ~> (procs[p].pc = "done")
  /\ (status = Syncing) ~> (status # Syncing)

\* the positions of an invocation inside performSync
InPerformSync == {"ds_await", "ap_write", "ap_last", "ps_read"}

\* the local-change task p, started while in conflicts, resumes with the
\* preview it awaited
DiscardsPreview(p) ==
  /\ procs[p].op = "local" /\ procs[p].pc = "lc_await"
  /\ procs'[p] # procs[p]

\* the local-change task p, started while in conflicts, ends
ConflictTaskEnds(p) ==
  /\ procs[p].op = "local" /\ procs[p].pc \in InPerformSync \cup {"lc_await"}
  /\ procs'[p].pc = "done"

\* C20: a local-change task that runs in HasConflicts drops the preview
\* future, re-enters performSync with the remote data and last-sync data of
\* the dropped preview without a request to the remote store, and when it ends
\* the status is Idle with no preview future (the new preview was applied) or
\* HasConflicts with a preview future held
C20_LocalChangeInConflicts ==
  [][\A p \in Procs :
       /\ (DiscardsPreview(p) /\ procs'[p].pc # "done") =>
            LET old == promises[procs[p].pr].value
                nx  == procs'[p]
            IN  /\ nx.pc = "ds_await" /\ nx.reqs = <<>> /\ server' = server
                /\ nx.rem = old.remoteUserData /\ nx.last = old.lastSyncUserData
                /\ syncPreviewPromise' = nx.pr /\ nx.pr # 0
                /\ promises'[nx.pr].state = "pending"
                /\ promises'[nx.pr].base.remoteUserData = old.remoteUserData
                /\ promises'[nx.pr].base.lastSyncUserData = old.lastSyncUserData
       /\ ConflictTaskEnds(p) =>
            \/ status' = Idle /\ syncPreviewPromise' = 0 /\ procs'[p].res = Idle
            \/ status' = HasConflicts /\ syncPreviewPromise' # 0]_vars

\* C21: acceptConflict acts only on a preview future that holds a preview with
\* conflicts, and otherwise leaves the instance, the store and the last-sync
\* record as they are; when it acts it assigns a future that updates that
\* preview; an updated preview without conflicts is applied (one write), and
\* when applyPreview returns the future is null and the status Idle; an
\* updated preview with conflicts is kept in the future and the status stays
\* HasConflicts
C21_AcceptConflict ==
  [][\A p \in Procs :
       LET me == procs[p]
           nx == procs'[p]
       IN  /\ (me.pc = "ac_get" /\ nx # me) =>
                IF /\ me.pr # 0
                   /\ promises[me.pr].state = "resolved"
                   /\ promises[me.pr].value.hasConflicts
                  THEN /\ nx.pc = "ac_await" /\ nx.reqs = <<>>
                       /\ nx.pr # 0 /\ syncPreviewPromise' = nx.pr
                       /\ promises'[nx.pr].state = "pending"
                       /\ promises'[nx.pr].by = "acceptConflict"
                       /\ promises'[nx.pr].base = promises[me.pr].value
                       /\ status' = status /\ conflicts' = conflicts
                  ELSE /\ nx.pc = "done"
                       /\ UNCHANGED <<status, conflicts, events, syncPreviewPromise,
                                      promises, syncHeaders, lastSyncFile, server>>
           /\ (me.pc = "ac_await" /\ nx # me /\ promises[me.pr].state = "resolved") =>
                IF promises[me.pr].value.hasConflicts
                  THEN /\ nx.pc = "done" /\ nx.res = "conflicts"
                       /\ status' = HasConflicts
                       /\ syncPreviewPromise' = me.pr
                       /\ promises'[me.pr] = promises[me.pr]
                       /\ UNCHANGED <<lastSyncFile, server>>
                  ELSE /\ nx.pc = "ap_write"
                       /\ Len(nx.reqs) = 1 /\ nx.reqs[1].type = "write"
                       /\ nx.reqs[1].ref = promises[me.pr].value.ref
                       /\ status' = status
           /\ (me.op = "acceptConflict" /\ me.pc = "ap_last" /\ nx # me) =>
                /\ nx.pc = "done" /\ nx.res = "applied"
                /\ status' = Idle /\ syncPreviewPromise' = 0]_vars

\* acceptConflict has applied the updated preview
C21_Witness ==
  \E p \in Procs :
    /\ procs[p].op = "acceptConflict" /\ procs[p].res = "applied"
    /\ status = Idle /\ syncPreviewPromise = 0

\* C22: when stop() returns, the preview future it found has been cancelled
\* and the field is null, the status is Idle and the conflict list is empty;
\* and every step in which the status leaves HasConflicts empties the
\* conflict list
C22_StopResets ==
  [][/\ Stop =>
          /\ syncPreviewPromise' = 0
          /\ status' = Idle
          /\ conflicts' = <<>>
          /\ \A i \in 1..Len(promises') :
               (i = syncPreviewPromise /\ promises'[i] # Dead) =>
                  promises'[i].cancellationRequested
     /\ (status = HasConflicts /\ status' # HasConflicts) => conflicts' = <<>>]_vars

\* C23: when replace(uri) ends without going on to stop(), it has returned
\* false and has left the status, the conflicts, the preview future, the
\* store and the last-sync record as they were; and it returns true only
\* from the end of applyPreview, with the status Idle
C23_ReplaceReturnsFalse ==
  [][\A p \in Procs :
       LET me == procs[p]
           nx == procs'[p]
       IN  /\ (me.pc = "rep_resolve" /\ nx.pc = "done") =>
                /\ nx.res = "false"
                /\ UNCHANGED <<status, conflicts, events, syncPreviewPromise,
                               promises, lastSyncFile, server>>
           /\ (me.op = "replace" /\ me.pc # "done" /\ nx.res = "true") =>
                /\ me.pc = "f_apply"
                /\ status' = Idle]_vars

\* C24: while push() is in its reconciliation (the status set to Syncing, up
\* to the end of applyPreview), no call of stop() made by it is still running
C24_PushAwaitsStop ==
  \A p \in Procs :
    (procs[p].op = "push" /\ procs[p].pc \in {"f_last", "f_gen", "f_apply"}) =>
      \A q \in Procs : ~(procs[q].op = "stop" /\ procs[q].pc # "done")

\* C25: getLatestRemoteUserData makes no read and returns the last-sync
\* record exactly when there is a last-sync record and either the manifest
\* gives the resource the ref of that record, or there is a manifest without
\* a ref for the resource and the record has no envelope; otherwise it makes
\* one read
C25_SkipsReadIff ==
  (helper.call = "getLatestRemoteUserData" /\ helper.returned) =>
    LET m == helper.manifest
        l == helper.lastSyncUserData
        skip == /\ l # NullData
                /\ \/ m.manifest /\ m.ref # NoRef /\ m.ref = l.ref
                   \/ m.manifest /\ m.ref = NoRef /\ l.ver = 0
    IN  /\ helper.ret.reads = (IF skip THEN 0 ELSE 1)
        /\ skip => helper.ret.data = l

\* C26: a last-sync record that getLastSyncUserData returns has no envelope
\* or an envelope whose version is at most the version of the strategy
C26_LoadedVersionBounded ==
  (helper.call = "lastSync" /\ helper.pc \in {"loaded", "reloaded"}
     /\ helper.ret # Null /\ helper.ret.syncData # Null) =>
    helper.ret.syncData.version <= version

\* C27: the record loaded after updateLastSyncUserData(remote, props) has
\* the ref and the syncData of remote and every additional property with
\* its value
C27_LastSyncRoundTrip ==
  (helper.call = "lastSync" /\ helper.pc = "reloaded") =>
    /\ helper.ret # Null
    /\ helper.ret.ref = helper.remote.ref
    /\ helper.ret.syncData = helper.remote.syncData
    /\ \A k \in DOMAIN helper.props :
         k \in DOMAIN helper.ret /\ helper.ret[k] = helper.props[k]

\* C28: a sync or acceptConflict that resumes from the await of a preview
\* future that stop() cancelled ends without an error
C28_CancellationSilent ==
  [][\A p \in Procs :
       (/\ procs[p].pc \in {"ds_await", "ac_await"}
        /\ procs[p].op \in {"sync", "acceptConflict"}
        /\ promises[procs[p].pr].state = "cancelled"
        /\ procs'[p] # procs[p]) =>
         (procs'[p].pc = "done" /\ procs'[p].res # "rejected")]_vars

\* the positions in which applyPreview is running
Applying == {"ap_write", "ap_last", "f_apply", "ap_local"}

\* C29: from the return of stop() to the next call, the status stays Idle
\* and no invocation enters applyPreview
C29_QuietAfterStop ==
  [][(stopped /\ stopped') =>
       /\ status' = Idle
       /\ \A p \in Procs :
            procs'[p].pc \in Applying => procs[p].pc \in Applying]_vars

\* C30: no preview future has had its preview passed to applyPreview more
\* than once
C30_AppliedAtMostOnce ==
  \A i \in 1..Len(promises) : promises[i].applied <= 1

\* C31: whenever the status is Idle and no invocation is suspended in flight,
\* the preview future is null
C31_IdleHoldsNoPreview ==
  (status = Idle /\ Quiescent) => syncPreviewPromise = 0
====
